---- MODULE Spec2Model ----
(***************************************************************************)
(* The format-mode overlay of serde_test (src/src/configure.rs): the two   *)
(* wrappers Readable<T> and Compact<T>, which answer is_human_readable()   *)
(* with a fixed flag and forward every other operation of the Serializer   *)
(* capability hierarchy to the object they wrap, re-wrapping every value   *)
(* and every builder that crosses them.                                    *)
(*                                                                         *)
(* The overlay is driven by two collaborators that are not part of it:     *)
(* the encode logic of the value being serialized (serde's Serialize       *)
(* impls, and the Example type of the Configure doc test) and the wrapped  *)
(* engine (a recording engine that logs every operation it receives, and   *)
(* may fail at any of them).  The model is a call-stack interpreter: ctl   *)
(* is the call or return in flight, stack the suspended callers.           *)
(***************************************************************************)
EXTENDS Integers, Sequences, FiniteSets, TLC

\* Longest chain of single-child layers (tags, options, newtypes,
\* aggregates, collections) over a leaf among the values serialized.
MaxDepth == 2

\* The wrapped object may fail at any of the first MaxFailAt operations it
\* receives.
MaxFailAt == 4

VARIABLES
    side,       \* "ser": the encode entry point runs; "de": the decode one
    root,       \* the value handed to the encode entry point
    engineHR,   \* the wrapped engine's own is_human_readable flag
    ctl,        \* the call or return in flight
    stack,      \* suspended callers, innermost last
    log,        \* operations the wrapped engine received, in order
    calls,      \* the calls made on overlay-facing objects: how many, and the last
    seen,       \* what each serializer or deserializer handed to value-level
                \* logic answered to is_human_readable(), in order
    injected,   \* the error the wrapped object raised (at = 0: none)
    result,     \* outcome of the entry point once ctl.c = "done"
    pass,       \* 1: the run of root; 2: the comparison run, of root with its
                \* outer tag off
    first,      \* what the run of root did, kept for the comparison run
    draws,      \* the lazy sources of collect_seq / collect_map: how many items
                \* the engine asked for, how many were pulled from a source,
                \* the items pulled and the items the engine was given
    et,         \* an error of the crate's error type being built, displayed
                \* and compared (src/src/error.rs)
    place       \* the `place` of deserialize_in_place: whether the decode
                \* entry point is the in-place one, the value the place
                \* holds, and how many tags the reference handed down is inside

env == <<side, root, engineHR, pass, first, et, place>>
vars == <<side, root, engineHR, ctl, stack, log, calls, seen, injected, result, pass, first,
          draws, et, place>>

(***************************************************************************)
(* Values                                                                  *)
(***************************************************************************)
Tags == {"Readable", "Compact"}

V(k, name, idx, variant, n, m, str, kids) ==
    [k |-> k, name |-> name, idx |-> idx, variant |-> variant,
     n |-> n, m |-> m, str |-> str, kids |-> kids]

U8(n) == V("u8", "", 0, "", n, 0, <<>>, <<>>)
Str(s) == V("str", "", 0, "", 0, 0, s, <<>>)
Example(a, b) == V("example", "", 0, "", a, b, <<>>, <<>>)
None == V("none", "", 0, "", 0, 0, <<>>, <<>>)
UnitVariant == V("unit_variant", "E", 0, "A", 0, 0, <<>>, <<>>)
Skip == V("skip", "", 0, "", 0, 0, <<>>, <<>>)
Agg(shape, name, idx, variant, kids) == V(shape, name, idx, variant, 0, 0, <<>>, kids)

\* Configure::readable / Configure::compact, and the $wrapper(value) of
\* every forwarding method: the value inside one more tag.
Wrap(tag, v) == V(tag, "", 0, "", 0, 0, <<>>, <<v>>)

SeqShapes == {"seq", "tuple", "tuple_struct", "tuple_variant"}
MapShapes == {"map", "map_entry"}
StructShapes == {"struct", "struct_variant"}
Shapes == SeqShapes \cup MapShapes \cup StructShapes
CollectKinds == {"collect_seq", "collect_map"}
NewtypeKinds == {"some", "newtype_struct", "newtype_variant"}
LayerKinds == Tags \cup NewtypeKinds \cup Shapes \cup CollectKinds

Layer(l, c) ==
    CASE l \in Tags -> Wrap(l, c)
      [] l = "some" -> Agg("some", "", 0, "", <<c>>)
      [] l = "newtype_struct" -> Agg(l, "N", 0, "", <<c>>)
      [] l = "newtype_variant" -> Agg(l, "E", 1, "B", <<c>>)
      [] l \in {"seq", "tuple"} -> Agg(l, "", 0, "", <<c>>)
      [] l = "tuple_struct" -> Agg(l, "T", 0, "", <<c>>)
      [] l = "tuple_variant" -> Agg(l, "E", 2, "C", <<c>>)
      [] l \in MapShapes -> Agg(l, "", 0, "", <<c, c>>)
      [] l = "struct" -> Agg(l, "S", 0, "", <<c>>)
      [] l = "struct_variant" -> Agg(l, "E", 3, "D", <<c>>)
      [] l = "collect_seq" -> Agg(l, "", 0, "", <<c>>)
      [] l = "collect_map" -> Agg(l, "", 0, "", <<c, c>>)

Leaves == {U8(1), Example(1, 0)}

RECURSIVE ValuesUpTo(_, _)
ValuesUpTo(kinds, d) ==
    IF d = 0 THEN Leaves
    ELSE LET S == ValuesUpTo(kinds, d - 1)
         IN  S \cup {Layer(l, c) : l \in kinds, c \in S}

\* The two-field struct of the encode scenario, values whose encode logic
\* uses the operations that carry no nested value, and aggregates nested
\* in aggregates
StructX == Agg("struct", "X", 0, "", <<U8(1), U8(2)>>)
StructSkip == Agg("struct", "X", 0, "", <<Example(1, 0), Skip, Example(2, 5)>>)
OptSeq == Agg("some", "", 0, "", <<Agg("seq", "", 0, "", <<None, UnitVariant>>)>>)
Nested == Agg("tuple_variant", "E", 2, "C", <<Agg("seq", "", 0, "", <<Example(1, 0)>>)>>)
LazySeq == Agg("collect_seq", "", 0, "", <<U8(1), Example(1, 0), U8(2)>>)
LazyMap == Agg("collect_map", "", 0, "", <<U8(1), Example(1, 0), U8(2), Example(2, 5)>>)

\* The other tag
Opp(t) == IF t = "Readable" THEN "Compact" ELSE "Readable"

\* An aggregate whose middle field carries the tag `t` over a nested
\* aggregate, between two untagged siblings
ScopedStruct(t) ==
    Agg("struct", "X", 0, "",
        <<Example(1, 0), Wrap(t, Agg("seq", "", 0, "", <<Example(2, 5)>>)), Example(1, 0)>>)
ScopedMap(t) ==
    Agg("map", "", 0, "",
        <<U8(1), Example(1, 0),
          U8(2), Wrap(t, Agg("seq", "", 0, "", <<Example(2, 5)>>)),
          U8(3), Example(1, 0)>>)

\* Such an aggregate under the opposite tag
Scoped(makes) == {Wrap(t, make[Opp(t)]) : t \in Tags, make \in makes}

\* A scenario value under one tag, or under two
Tagged(bodies) ==
    {Wrap(t, b) : t \in Tags, b \in bodies}
    \cup {Wrap(t, Wrap(u, b)) : t \in Tags, u \in Tags, b \in bodies}

Roots ==
    ValuesUpTo(LayerKinds, MaxDepth)
    \cup Tagged({StructX, StructSkip, OptSeq, Nested, LazySeq, LazyMap})
    \cup Scoped({[t \in Tags |-> ScopedStruct(t)], [t \in Tags |-> ScopedMap(t)]})

\* The decode entry point is given the types that are read element by
\* element: the lazy collections and the skipped fields are write-side
\* notions
ReadRoots ==
    ValuesUpTo(LayerKinds \ CollectKinds, MaxDepth)
    \cup Tagged({StructX, OptSeq, Nested})
    \cup Scoped({[t \in Tags |-> ScopedMap(t)]})

\* A value with no tag and no mode-sensitive part
RECURSIVE ModeFree(_)
ModeFree(v) ==
    /\ v.k \notin Tags \cup {"example"}
    /\ \A i \in 1..Len(v.kids) : ModeFree(v.kids[i])

FieldName(i) == <<"a", "b", "c">>[i]

(***************************************************************************)
(* Records of the interpreter                                              *)
(***************************************************************************)
NoMeta == [name |-> "", idx |-> 0, variant |-> "", len |-> -1, n |-> 0, str |-> <<>>]
Meta(name, idx, variant, len) ==
    [name |-> name, idx |-> idx, variant |-> variant, len |-> len, n |-> 0, str |-> <<>>]
NoErr == [at |-> 0, op |-> ""]
NoDraws == [asked |-> 0, pulled |-> 0, src |-> <<>>, items |-> <<>>]

Ctl(c, role, op, tags, meta, vals, maps, ok, err) ==
    [c |-> c, role |-> role, op |-> op, tags |-> tags, meta |-> meta,
     vals |-> vals, maps |-> maps, ok |-> ok, err |-> err]

\* value.serialize(serializer), the serializer being the engine inside tags
SerializeCall(v, tags) == Ctl("serialize", "ser", "serialize", tags, NoMeta, <<v>>, <<>>, TRUE, NoErr)
\* receiver.op(meta, vals), the receiver being an engine object inside tags
MethodCall(role, op, tags, meta, vals, maps) == Ctl("call", role, op, tags, meta, vals, maps, TRUE, NoErr)
RetUnit == Ctl("ret", "", "unit", <<>>, NoMeta, <<>>, <<>>, TRUE, NoErr)
RetBuilder(shape, tags) == Ctl("ret", shape, "builder", tags, NoMeta, <<>>, <<>>, TRUE, NoErr)
RetErr(e) == Ctl("ret", "", "error", <<>>, NoMeta, <<>>, <<>>, FALSE, e)
Done == Ctl("done", "", "", <<>>, NoMeta, <<>>, <<>>, TRUE, NoErr)

Frame(f, v, d, i, have, tags, vals, maps) ==
    [f |-> f, v |-> v, d |-> d, i |-> i, have |-> have, tags |-> tags, vals |-> vals, maps |-> maps]

Top == stack[Len(stack)]
Pop == SubSeq(stack, 1, Len(stack) - 1)
Push(fr) == Append(stack, fr)

Entry(c) == [op |-> c.op, role |-> c.role, tags |-> c.tags, meta |-> c.meta,
             vals |-> c.vals, maps |-> c.maps]

\* A caller makes the call c on an object that may be wrapped
Issue(c) == [n |-> calls.n + 1, last |-> Entry(c)]

(***************************************************************************)
(* The overlay: src/src/configure.rs                                       *)
(***************************************************************************)
\* Fault: the wrapper forwards the query like every other method, so the
\* wrapped engine answers
IsHumanReadable_Inner(tags) == engineHR

\* is_human_readable of an engine inside the tags `tags` (outermost first)
IsHumanReadable(tags) ==
    IF tags = <<>> THEN engineHR ELSE Head(tags) = "Readable"

ScalarOps ==
    {"serialize_u8", "serialize_str", "serialize_unit_variant", "serialize_none"}
NewtypeOps == {"serialize_some", "serialize_newtype_struct", "serialize_newtype_variant"}
BeginOps == {"serialize_seq", "serialize_tuple", "serialize_tuple_struct",
             "serialize_tuple_variant", "serialize_map", "serialize_struct",
             "serialize_struct_variant"}
CollectOps == {"collect_seq", "collect_map"}
ElementOps == {"serialize_element", "serialize_field", "serialize_key",
               "serialize_value", "serialize_entry"}

\* The answer a value's logic gets from the engine it is handed: which
\* wrapper is outermost, the flag, and how many callers are suspended
Observe(c) ==
    [k |-> c.vals[1].k, n |-> c.vals[1].n,
     w |-> IF c.tags = <<>> THEN "engine" ELSE Head(c.tags),
     hr |-> IsHumanReadable(c.tags), depth |-> Len(stack)]

\* Fault: the values are forwarded as they come
WrapValues_Bare(tag, vals) == vals

\* The values of a call, each inside the wrapper's tag
WrapValues(tag, vals) == [i \in 1..Len(vals) |-> Wrap(tag, vals[i])]

\* Fault: a tag over a serializer that already carries it takes it off
TagSerialize_Toggle ==
    /\ ctl.c = "serialize"
    /\ ctl.vals[1].k \in Tags
    /\ ctl' = SerializeCall(ctl.vals[1].kids[1],
                            IF ctl.tags # <<>> /\ Head(ctl.tags) = ctl.vals[1].k
                            THEN Tail(ctl.tags)
                            ELSE <<ctl.vals[1].k>> \o ctl.tags)
    /\ UNCHANGED <<env, draws, seen, stack, log, calls, injected, result>>

\* Fault: the tag goes under the wrappers the serializer already has
TagSerialize_Under ==
    /\ ctl.c = "serialize"
    /\ ctl.vals[1].k \in Tags
    /\ ctl' = SerializeCall(ctl.vals[1].kids[1], ctl.tags \o <<ctl.vals[1].k>>)
    /\ UNCHANGED <<env, draws, seen, stack, log, calls, injected, result>>

\* impl Serialize for Readable<T> / Compact<T>
TagSerialize ==
    /\ ctl.c = "serialize"
    /\ ctl.vals[1].k \in Tags
    /\ ctl' = SerializeCall(ctl.vals[1].kids[1], <<ctl.vals[1].k>> \o ctl.tags)
    /\ UNCHANGED <<env, draws, seen, stack, log, calls, injected, result>>

\* forward_serialize_methods!, serialize_unit, serialize_unit_variant,
\* serialize_none, collect_str
SerializerForwardScalar ==
    /\ ctl.c = "call" /\ ctl.role = "ser" /\ ctl.op \in ScalarOps
    /\ ctl.tags # <<>>
    /\ ctl' = [ctl EXCEPT !.tags = Tail(ctl.tags)]
    /\ UNCHANGED <<env, draws, seen, stack, log, calls, injected, result>>

\* serialize_newtype_struct, serialize_newtype_variant, serialize_some
SerializerForwardNewtype ==
    /\ ctl.c = "call" /\ ctl.role = "ser" /\ ctl.op \in NewtypeOps
    /\ ctl.tags # <<>>
    /\ ctl' = [ctl EXCEPT !.tags = Tail(ctl.tags),
                          !.vals = WrapValues(Head(ctl.tags), ctl.vals)]
    /\ UNCHANGED <<env, draws, seen, stack, log, calls, injected, result>>

\* Fault: the length hint is not passed on
SerializerForwardBegin_NoLen ==
    /\ ctl.c = "call" /\ ctl.role = "ser" /\ ctl.op \in BeginOps
    /\ ctl.tags # <<>>
    /\ ctl' = [ctl EXCEPT !.tags = Tail(ctl.tags), !.meta.len = -1]
    /\ stack' = Push(Frame("mapwrap", None, None, 0, FALSE, <<Head(ctl.tags)>>, <<>>, <<>>))
    /\ UNCHANGED <<env, draws, seen, log, calls, injected, result>>

\* serialize_seq .. serialize_struct_variant: the call on the wrapped engine
SerializerForwardBegin ==
    /\ ctl.c = "call" /\ ctl.role = "ser" /\ ctl.op \in BeginOps
    /\ ctl.tags # <<>>
    /\ ctl' = [ctl EXCEPT !.tags = Tail(ctl.tags)]
    /\ stack' = Push(Frame("mapwrap", None, None, 0, FALSE, <<Head(ctl.tags)>>, <<>>, <<>>))
    /\ UNCHANGED <<env, draws, seen, log, calls, injected, result>>

\* Fault: the error of the wrapped engine is given context
MapWrapper_Context(tag, r) ==
    IF r.ok THEN [r EXCEPT !.tags = <<tag>> \o r.tags]
    ELSE [r EXCEPT !.err.op = tag \o ": " \o r.err.op]

\* The outcome of an aggregate-begin after .map($wrapper)
MapWrapper(tag, r) ==
    IF r.ok THEN [r EXCEPT !.tags = <<tag>> \o r.tags] ELSE r

\* serialize_seq .. serialize_struct_variant: .map($wrapper) on the outcome
SerializerBeginReturn ==
    /\ ctl.c = "ret"
    /\ stack # <<>> /\ Top.f = "mapwrap"
    /\ ctl' = MapWrapper(Top.tags[1], ctl)
    /\ stack' = Pop
    /\ UNCHANGED <<env, draws, seen, log, calls, injected, result>>

\* Fault: the items are pulled from the source and wrapped when the call
\* is made, and the engine is given the buffer
SerializerForwardCollect_Eager ==
    /\ ctl.c = "call" /\ ctl.role = "ser" /\ ctl.op \in CollectOps
    /\ ctl.tags # <<>>
    /\ ctl' = [ctl EXCEPT !.tags = Tail(ctl.tags),
                          !.vals = WrapValues(Head(ctl.tags), ctl.vals),
                          !.meta.n = Len(ctl.vals)]
    /\ draws' = IF ctl.meta.n > 0 THEN draws
                ELSE [draws EXCEPT !.pulled = draws.pulled
                                     + Len(ctl.vals) \div (IF ctl.op = "collect_map" THEN 2 ELSE 1),
                                   !.src = draws.src \o ctl.vals]
    /\ UNCHANGED <<env, seen, stack, log, calls, injected, result>>

\* collect_seq, collect_map: the source behind one more lazy map adaptor
SerializerForwardCollect ==
    /\ ctl.c = "call" /\ ctl.role = "ser" /\ ctl.op \in CollectOps
    /\ ctl.tags # <<>>
    /\ ctl' = [ctl EXCEPT !.tags = Tail(ctl.tags),
                          !.maps = Append(ctl.maps, Head(ctl.tags))]
    /\ UNCHANGED <<env, draws, seen, stack, log, calls, injected, result>>

\* Fault: the element is forwarded as it comes
BuilderForwardValue_Bare ==
    /\ ctl.c = "call" /\ ctl.role \in Shapes /\ ctl.op \in ElementOps
    /\ ctl.tags # <<>>
    /\ ctl' = [ctl EXCEPT !.tags = Tail(ctl.tags)]
    /\ UNCHANGED <<env, draws, seen, stack, log, calls, injected, result>>

\* serialize_element / serialize_field / serialize_key / serialize_value /
\* serialize_entry of the seven builders
BuilderForwardValue ==
    /\ ctl.c = "call" /\ ctl.role \in Shapes /\ ctl.op \in ElementOps
    /\ ctl.tags # <<>>
    /\ ctl' = [ctl EXCEPT !.tags = Tail(ctl.tags),
                          !.vals = WrapValues(Head(ctl.tags), ctl.vals)]
    /\ UNCHANGED <<env, draws, seen, stack, log, calls, injected, result>>

\* Fault: skip_field is left to the trait's default, which returns Ok(())
BuilderSkipField_Default ==
    /\ ctl.c = "call" /\ ctl.role \in StructShapes /\ ctl.op = "skip_field"
    /\ ctl.tags # <<>>
    /\ ctl' = RetUnit
    /\ UNCHANGED <<env, draws, seen, stack, log, calls, injected, result>>

\* skip_field of the struct and struct-variant builders
BuilderSkipField ==
    /\ ctl.c = "call" /\ ctl.role \in StructShapes /\ ctl.op = "skip_field"
    /\ ctl.tags # <<>>
    /\ ctl' = [ctl EXCEPT !.tags = Tail(ctl.tags)]
    /\ UNCHANGED <<env, draws, seen, stack, log, calls, injected, result>>

\* end of the seven builders
BuilderEnd ==
    /\ ctl.c = "call" /\ ctl.role \in Shapes /\ ctl.op = "end"
    /\ ctl.tags # <<>>
    /\ ctl' = [ctl EXCEPT !.tags = Tail(ctl.tags)]
    /\ UNCHANGED <<env, draws, seen, stack, log, calls, injected, result>>

(***************************************************************************)
(* Value-level encode logic: the callers of the overlay                    *)
(***************************************************************************)
Digit(d) == <<"0", "1", "2", "3", "4", "5", "6", "7", "8", "9">>[d + 1]

\* u8's Display: the decimal digits, most significant first
RECURSIVE DecStr(_)
DecStr(n) == IF n < 10 THEN <<Digit(n)>> ELSE DecStr(n \div 10) \o <<Digit(n % 10)>>

\* format!("{}.{}", self.0, self.1)
Format(a, b) == DecStr(a) \o <<".">> \o DecStr(b)

\* Serialize for Example, of the Configure doc test: a string when the
\* serializer is human readable, the pair otherwise
ExampleSerialize ==
    /\ ctl.c = "serialize"
    /\ seen' = Append(seen, Observe(ctl))
    /\ ctl.vals[1].k = "example"
    /\ ctl' = SerializeCall(
                IF IsHumanReadable(ctl.tags)
                THEN Str(Format(ctl.vals[1].n, ctl.vals[1].m))
                ELSE Agg("tuple", "", 0, "", <<U8(ctl.vals[1].n), U8(ctl.vals[1].m)>>),
                ctl.tags)
    /\ UNCHANGED <<env, draws, stack, log, calls, injected, result>>

BeginOp(k) ==
    CASE k = "seq" -> "serialize_seq"
      [] k = "tuple" -> "serialize_tuple"
      [] k = "tuple_struct" -> "serialize_tuple_struct"
      [] k = "tuple_variant" -> "serialize_tuple_variant"
      [] k \in MapShapes -> "serialize_map"
      [] k = "struct" -> "serialize_struct"
      [] k = "struct_variant" -> "serialize_struct_variant"

\* Fields a struct writes: the skipped ones are not counted
Written(kids) == Len(SelectSeq(kids, LAMBDA x : x.k # "skip"))

AggLen(v) ==
    CASE v.k \in MapShapes -> Len(v.kids) \div 2
      [] v.k \in StructShapes -> Written(v.kids)
      [] OTHER -> Len(v.kids)

\* The first call a value's encode logic makes on the serializer it is given
ValueCall(v, tags) ==
    CASE v.k = "u8" ->
           MethodCall("ser", "serialize_u8", tags, [NoMeta EXCEPT !.n = v.n], <<>>, <<>>)
      [] v.k = "str" ->
           MethodCall("ser", "serialize_str", tags, [NoMeta EXCEPT !.str = v.str], <<>>, <<>>)
      [] v.k = "none" ->
           MethodCall("ser", "serialize_none", tags, NoMeta, <<>>, <<>>)
      [] v.k = "unit_variant" ->
           MethodCall("ser", "serialize_unit_variant", tags,
                      Meta(v.name, v.idx, v.variant, -1), <<>>, <<>>)
      [] v.k = "some" ->
           MethodCall("ser", "serialize_some", tags, NoMeta, v.kids, <<>>)
      [] v.k \in {"newtype_struct", "newtype_variant"} ->
           MethodCall("ser", "serialize_" \o v.k, tags,
                      Meta(v.name, v.idx, v.variant, -1), v.kids, <<>>)
      [] v.k \in Shapes ->
           MethodCall("ser", BeginOp(v.k), tags,
                      Meta(v.name, v.idx, v.variant, AggLen(v)), <<>>, <<>>)
      [] v.k \in CollectKinds ->
           MethodCall("ser", v.k, tags, NoMeta, v.kids, <<>>)

\* Serialize for scalars, options, newtypes, aggregates and collections
ValueSerialize ==
    /\ ctl.c = "serialize"
    /\ seen' = Append(seen, Observe(ctl))
    /\ ctl.vals[1].k \notin Tags \cup {"example"}
    /\ LET v == ctl.vals[1]
           c == ValueCall(v, ctl.tags)
       IN  /\ ctl' = c
           /\ calls' = Issue(c)
           /\ stack' = IF v.k \in Shapes
                       THEN Push(Frame("agg", v, None, 0, FALSE, <<>>, <<>>, <<>>))
                       ELSE stack
    /\ UNCHANGED <<env, draws, log, injected, result>>

BuilderRole(k) == IF k = "map_entry" THEN "map" ELSE k

\* The call an aggregate's encode logic makes for its kids from i + 1 on
ElementCall(v, i, btags) ==
    LET role == BuilderRole(v.k)
        kid == v.kids[i + 1]
    IN  CASE v.k \in {"seq", "tuple"} ->
               MethodCall(role, "serialize_element", btags, NoMeta, <<kid>>, <<>>)
          [] v.k \in {"tuple_struct", "tuple_variant"} ->
               MethodCall(role, "serialize_field", btags, NoMeta, <<kid>>, <<>>)
          [] v.k \in StructShapes /\ kid.k = "skip" ->
               MethodCall(role, "skip_field", btags,
                          [NoMeta EXCEPT !.name = FieldName(i + 1)], <<>>, <<>>)
          [] v.k \in StructShapes /\ kid.k # "skip" ->
               MethodCall(role, "serialize_field", btags,
                          [NoMeta EXCEPT !.name = FieldName(i + 1)], <<kid>>, <<>>)
          [] v.k = "map" ->
               MethodCall(role, IF i % 2 = 0 THEN "serialize_key" ELSE "serialize_value",
                          btags, NoMeta, <<kid>>, <<>>)
          [] v.k = "map_entry" ->
               MethodCall(role, "serialize_entry", btags, NoMeta,
                          <<kid, v.kids[i + 2]>>, <<>>)

\* An aggregate's encode logic once the begin, or an element, has returned
\* Ok: the next element on the builder, then end
ValueAggNext ==
    /\ ctl.c = "ret" /\ ctl.ok
    /\ stack # <<>> /\ Top.f = "agg"
    /\ LET fr == Top
           btags == IF fr.have THEN fr.tags ELSE ctl.tags
           c == IF fr.i < Len(fr.v.kids)
                THEN ElementCall(fr.v, fr.i, btags)
                ELSE MethodCall(BuilderRole(fr.v.k), "end", btags, NoMeta, <<>>, <<>>)
       IN  /\ ctl' = c
           /\ calls' = Issue(c)
           /\ stack' = IF fr.i < Len(fr.v.kids)
                       THEN Append(Pop, [fr EXCEPT !.i = fr.i + Len(c.vals) + (IF c.op = "skip_field" THEN 1 ELSE 0),
                                                   !.have = TRUE, !.tags = btags])
                       ELSE Pop
    /\ UNCHANGED <<env, draws, seen, log, injected, result>>

\* The ? of value and engine logic: an Err returns to the caller's caller
PropagateError ==
    /\ ctl.c = "ret" /\ ~ctl.ok
    /\ stack # <<>> /\ Top.f \in {"agg", "entry", "collect", "collect_pairs", "example_parse", "example_pair", "wrapkid", "assign",
                            "visit_seq", "visit_map", "visit_enum", "entry_de", "variant_ret"}
    /\ stack' = Pop
    /\ UNCHANGED <<env, draws, seen, ctl, log, calls, injected, result>>

(***************************************************************************)
(* The wrapped engine: records what it receives, serializes nested values  *)
(* with itself, and may fail at any operation                              *)
(***************************************************************************)
\* The comparison run fails where the run of root did
MustFail == pass = 2 /\ first.failAt = Len(log) + 1

\* The items of a collect source as they come out of its map adaptors
RECURSIVE ApplyMaps(_, _)
ApplyMaps(maps, v) ==
    IF maps = <<>> THEN v ELSE ApplyMaps(Tail(maps), Wrap(Head(maps), v))

BuilderOf(op) ==
    CASE op = "serialize_seq" -> "seq"
      [] op = "serialize_tuple" -> "tuple"
      [] op = "serialize_tuple_struct" -> "tuple_struct"
      [] op = "serialize_tuple_variant" -> "tuple_variant"
      [] op = "serialize_map" -> "map"
      [] op = "serialize_struct" -> "struct"
      [] op = "serialize_struct_variant" -> "struct_variant"

\* The wrapped object fails: an engine, builder or accessor, or the
\* value-level visitor or seed behind a wrapped one
InnerFail ==
    /\ ctl.c = "call" /\ ctl.tags = <<>>
    /\ injected.at = 0
    /\ \/ pass = 1 /\ Len(log) < MaxFailAt
       \/ MustFail
    /\ log' = Append(log, Entry(ctl))
    /\ LET e == [at |-> Len(log) + 1, op |-> ctl.op]
       IN  /\ injected' = e
           /\ ctl' = RetErr(e)
    /\ UNCHANGED <<env, draws, seen, stack, calls, result>>

\* A write-side operation reaches the engine or one of its builders
EngineOp ==
    /\ ctl.c = "call" /\ ctl.tags = <<>> /\ ctl.role \in {"ser"} \cup Shapes
    /\ ~MustFail
    /\ log' = Append(log, Entry(ctl))
    /\ CASE ctl.op \in ScalarOps \cup {"skip_field", "end"} ->
              /\ ctl' = RetUnit
              /\ stack' = stack
         [] ctl.op \in BeginOps ->
              /\ ctl' = RetBuilder(BuilderOf(ctl.op), <<>>)
              /\ stack' = stack
         [] ctl.op \in NewtypeOps \cup (ElementOps \ {"serialize_entry"}) ->
              /\ ctl' = SerializeCall(ctl.vals[1], <<>>)
              /\ stack' = stack
         [] ctl.op = "serialize_entry" ->
              /\ ctl' = SerializeCall(ctl.vals[1], <<>>)
              /\ stack' = Push(Frame("entry", None, None, 0, FALSE, <<>>, <<ctl.vals[2]>>, <<>>))
         [] ctl.op \in CollectOps ->
              /\ ctl' = RetUnit
              /\ stack' = Push(Frame(IF ctl.op = "collect_map" THEN "collect_pairs" ELSE "collect",
                                     None, None, 0, ctl.meta.n > 0, <<>>, ctl.vals, ctl.maps))
    /\ UNCHANGED <<env, draws, seen, calls, injected, result>>

\* serialize_entry of the engine's map builder: the value after the key
EngineEntryValue ==
    /\ ctl.c = "ret" /\ ctl.ok
    /\ stack # <<>> /\ Top.f = "entry"
    /\ ctl' = SerializeCall(Top.vals[1], <<>>)
    /\ stack' = Pop
    /\ UNCHANGED <<env, draws, seen, log, calls, injected, result>>

\* collect_seq / collect_map of the engine: asks the iterator it was given
\* for the next item (an element, or a key with its value), which pulls it
\* from the source through the adaptors unless the items were pulled when
\* the call was made, and serializes it; stops at the first failure
EngineCollectNext ==
    /\ ctl.c = "ret" /\ ctl.ok
    /\ stack # <<>> /\ Top.f \in {"collect", "collect_pairs"}
    /\ IF Top.i < Len(Top.vals)
       THEN LET step == IF Top.f = "collect" THEN 1 ELSE 2
                raw == SubSeq(Top.vals, Top.i + 1, Top.i + step)
                given == [j \in 1..step |-> ApplyMaps(Top.maps, raw[j])]
                rest == Append(Pop, [Top EXCEPT !.i = Top.i + step])
            IN  /\ ctl' = SerializeCall(given[1], <<>>)
                /\ stack' = IF step = 1 THEN rest
                            ELSE Append(rest, Frame("entry", None, None, 0, FALSE, <<>>,
                                                    <<given[2]>>, <<>>))
                /\ draws' = [asked |-> draws.asked + 1,
                             pulled |-> draws.pulled + (IF Top.have THEN 0 ELSE 1),
                             src |-> draws.src \o (IF Top.have THEN <<>> ELSE raw),
                             items |-> draws.items \o given]
       ELSE /\ ctl' = RetUnit
            /\ stack' = Pop
            /\ UNCHANGED draws
    /\ UNCHANGED <<env, seen, log, calls, injected, result>>

(***************************************************************************)
(* The overlay, read side: src/src/configure.rs                            *)
(*                                                                         *)
(* A read-side call carries the target type and the data the engine is     *)
(* positioned at (vals = <<target, data>>), the wrappers of its receiver   *)
(* (tags) and the wrappers of the object passed to it (maps): the visitor  *)
(* or seed of a call on a deserializer or accessor, the deserializer or    *)
(* accessor of a call on a visitor or seed.                                *)
(***************************************************************************)
DeserializeCall(t, d, tags) ==
    Ctl("deserialize", "de", "deserialize", tags, NoMeta, <<t, d>>, <<>>, TRUE, NoErr)
RetVal(vs) == Ctl("ret", "", "value", <<>>, NoMeta, vs, <<>>, TRUE, NoErr)
RetNone == Ctl("ret", "", "none", <<>>, NoMeta, <<>>, <<>>, TRUE, NoErr)
RetHint(n) == Ctl("ret", "", "hint", <<>>, [NoMeta EXCEPT !.len = n], <<>>, <<>>, TRUE, NoErr)
RetVariant(id, tags) == Ctl("ret", "variant_access", "variant", tags, NoMeta, <<id>>, <<>>, TRUE, NoErr)

DeOps == {"deserialize_u8", "deserialize_string", "deserialize_option",
          "deserialize_seq", "deserialize_map", "deserialize_identifier"}
DeNamedOps == {"deserialize_newtype_struct", "deserialize_tuple",
               "deserialize_tuple_struct", "deserialize_struct", "deserialize_enum"}
VisitScalarOps == {"visit_u8", "visit_str", "visit_none"}
VisitNestedOps == {"visit_some", "visit_newtype_struct", "visit_seq", "visit_map",
                   "visit_enum"}
MapAccessOps == {"next_key_seed", "next_value_seed", "next_entry_seed"}
VariantOps == {"newtype_variant_seed", "tuple_variant", "struct_variant"}

\* $wrapper(x) of an object passed along: one more wrapper, outermost
WrapArg(tag, chain) == <<tag>> \o chain

\* Fault: a deserializer that already has a wrapper is passed as it is
TagDeserialize_KeepOuter ==
    /\ ctl.c = "deserialize"
    /\ ctl.vals[1].k \in Tags
    /\ ctl' = DeserializeCall(ctl.vals[1].kids[1], ctl.vals[2],
                              IF ctl.tags # <<>> THEN ctl.tags
                              ELSE WrapArg(ctl.vals[1].k, ctl.tags))
    /\ stack' = Push(Frame("maptag", None, None, 0, FALSE, <<ctl.vals[1].k>>, <<>>, <<>>))
    /\ UNCHANGED <<env, draws, seen, log, calls, injected, result>>

\* impl Deserialize for Readable<T> / Compact<T>: T::deserialize on the
\* deserializer inside the tag
TagDeserialize ==
    /\ ctl.c = "deserialize"
    /\ ctl.vals[1].k \in Tags
    /\ ctl' = DeserializeCall(ctl.vals[1].kids[1], ctl.vals[2],
                              WrapArg(ctl.vals[1].k, ctl.tags))
    /\ stack' = Push(Frame("maptag", None, None, 0, FALSE, <<ctl.vals[1].k>>, <<>>, <<>>))
    /\ UNCHANGED <<env, draws, seen, log, calls, injected, result>>

\* Fault: the decoded value comes back inside the other tag
MapTag_Other(tag, r) ==
    IF r.ok
    THEN [r EXCEPT !.vals = <<Wrap(IF tag = "Readable" THEN "Compact" ELSE "Readable",
                                   r.vals[1])>>]
    ELSE r

\* The outcome of T::deserialize after .map(Readable) / .map(Compact)
MapTag(tag, r) ==
    IF r.ok THEN [r EXCEPT !.vals = <<Wrap(tag, r.vals[1])>>] ELSE r

\* impl Deserialize for Readable<T> / Compact<T>: .map($wrapper) on the outcome
TagDeserializeReturn ==
    /\ ctl.c = "ret"
    /\ stack # <<>> /\ Top.f = "maptag"
    /\ ctl' = MapTag(Top.tags[1], ctl)
    /\ stack' = Pop
    /\ UNCHANGED <<env, draws, seen, log, calls, injected, result>>

\* No in-place decoding is going on
NoPlace == [on |-> FALSE, val |-> None, at |-> 0]

\* What a place held before decoding into it
Prior == V("prior", "", 0, "", 0, 0, <<>>, <<>>)

\* A place of the type of `t`: its tags around earlier contents
RECURSIVE PlaceOf(_)
PlaceOf(t) == IF t.k \in Tags THEN Wrap(t.k, PlaceOf(t.kids[1])) ELSE Prior

\* The value of a place after `x` is stored `at` tags inside it
RECURSIVE Store(_, _, _)
Store(v, at, x) == IF at = 0 THEN x ELSE Wrap(v.k, Store(v.kids[1], at - 1, x))

InPlaceCall(t, d, tags) ==
    Ctl("deserialize_in_place", "de", "deserialize_in_place", tags, NoMeta, <<t, d>>, <<>>,
        TRUE, NoErr)

\* Fault: the whole place is handed on instead of its payload
TagDeserializeInPlace_Whole ==
    /\ ctl.c = "deserialize_in_place"
    /\ ctl.vals[1].k \in Tags
    /\ ctl' = InPlaceCall(ctl.vals[1].kids[1], ctl.vals[2], WrapArg(ctl.vals[1].k, ctl.tags))
    /\ UNCHANGED <<env, draws, seen, stack, log, calls, injected, result>>

\* impl Deserialize for Readable<T> / Compact<T>, deserialize_in_place:
\* T::deserialize_in_place on the deserializer inside the tag and on
\* &mut place.0; its outcome is the outcome
TagDeserializeInPlace ==
    /\ ctl.c = "deserialize_in_place"
    /\ ctl.vals[1].k \in Tags
    /\ ctl' = InPlaceCall(ctl.vals[1].kids[1], ctl.vals[2], WrapArg(ctl.vals[1].k, ctl.tags))
    /\ place' = [place EXCEPT !.at = place.at + 1]
    /\ UNCHANGED <<side, root, engineHR, pass, first, et>>
    /\ UNCHANGED <<draws, seen, stack, log, calls, injected, result>>

\* deserialize_in_place of a type that does not override it:
\* *place = Deserialize::deserialize(deserializer)?
DefaultInPlace ==
    /\ ctl.c = "deserialize_in_place"
    /\ ctl.vals[1].k \notin Tags
    /\ ctl' = DeserializeCall(ctl.vals[1], ctl.vals[2], ctl.tags)
    /\ stack' = Push(Frame("assign", None, None, place.at, FALSE, <<>>, <<>>, <<>>))
    /\ UNCHANGED <<env, draws, seen, log, calls, injected, result>>

\* The decoded value is stored where the reference points; Ok(())
AssignInPlace ==
    /\ ctl.c = "ret" /\ ctl.ok
    /\ stack # <<>> /\ Top.f = "assign"
    /\ place' = [place EXCEPT !.val = Store(place.val, Top.i, ctl.vals[1])]
    /\ ctl' = RetUnit
    /\ stack' = Pop
    /\ UNCHANGED <<side, root, engineHR, pass, first, et>>
    /\ UNCHANGED <<draws, seen, log, calls, injected, result>>

\* impl DeserializeSeed for Readable<T> / Compact<T>
SeedDeserialize ==
    /\ ctl.c = "call" /\ ctl.role = "seed" /\ ctl.op = "deserialize"
    /\ ctl.tags # <<>>
    /\ ctl' = [ctl EXCEPT !.tags = Tail(ctl.tags),
                          !.maps = WrapArg(Head(ctl.tags), ctl.maps)]
    /\ UNCHANGED <<env, draws, seen, stack, log, calls, injected, result>>

\* forward_deserialize_methods!: deserialize_any .. deserialize_ignored_any
DeserializerForward ==
    /\ ctl.c = "call" /\ ctl.role = "de" /\ ctl.op \in DeOps
    /\ ctl.tags # <<>>
    /\ ctl' = [ctl EXCEPT !.tags = Tail(ctl.tags),
                          !.maps = WrapArg(Head(ctl.tags), ctl.maps)]
    /\ UNCHANGED <<env, draws, seen, stack, log, calls, injected, result>>

\* deserialize_unit_struct .. deserialize_enum
DeserializerForwardNamed ==
    /\ ctl.c = "call" /\ ctl.role = "de" /\ ctl.op \in DeNamedOps
    /\ ctl.tags # <<>>
    /\ ctl' = [ctl EXCEPT !.tags = Tail(ctl.tags),
                          !.maps = WrapArg(Head(ctl.tags), ctl.maps)]
    /\ UNCHANGED <<env, draws, seen, stack, log, calls, injected, result>>

\* Visitor: visit_bool .. visit_none, visit_unit
VisitorForwardScalar ==
    /\ ctl.c = "call" /\ ctl.role = "visitor" /\ ctl.op \in VisitScalarOps
    /\ ctl.tags # <<>>
    /\ ctl' = [ctl EXCEPT !.tags = Tail(ctl.tags)]
    /\ UNCHANGED <<env, draws, seen, stack, log, calls, injected, result>>

\* Fault: the deserializer or accessor is forwarded as it comes
VisitorForwardNested_Bare ==
    /\ ctl.c = "call" /\ ctl.role = "visitor" /\ ctl.op \in VisitNestedOps
    /\ ctl.tags # <<>>
    /\ ctl' = [ctl EXCEPT !.tags = Tail(ctl.tags)]
    /\ UNCHANGED <<env, draws, seen, stack, log, calls, injected, result>>

\* Visitor: visit_some, visit_newtype_struct, visit_seq, visit_map, visit_enum
VisitorForwardNested ==
    /\ ctl.c = "call" /\ ctl.role = "visitor" /\ ctl.op \in VisitNestedOps
    /\ ctl.tags # <<>>
    /\ ctl' = [ctl EXCEPT !.tags = Tail(ctl.tags),
                          !.maps = WrapArg(Head(ctl.tags), ctl.maps)]
    /\ UNCHANGED <<env, draws, seen, stack, log, calls, injected, result>>

\* SeqAccess::next_element_seed
SeqAccessNextElement ==
    /\ ctl.c = "call" /\ ctl.role = "seq_access" /\ ctl.op = "next_element_seed"
    /\ ctl.tags # <<>>
    /\ ctl' = [ctl EXCEPT !.tags = Tail(ctl.tags),
                          !.maps = WrapArg(Head(ctl.tags), ctl.maps)]
    /\ UNCHANGED <<env, draws, seen, stack, log, calls, injected, result>>

\* SeqAccess::size_hint, MapAccess::size_hint
AccessSizeHint ==
    /\ ctl.c = "call" /\ ctl.role \in {"seq_access", "map_access"} /\ ctl.op = "size_hint"
    /\ ctl.tags # <<>>
    /\ ctl' = [ctl EXCEPT !.tags = Tail(ctl.tags)]
    /\ UNCHANGED <<env, draws, seen, stack, log, calls, injected, result>>

\* MapAccess::next_key_seed, next_value_seed, next_entry_seed
MapAccessNext ==
    /\ ctl.c = "call" /\ ctl.role = "map_access" /\ ctl.op \in MapAccessOps
    /\ ctl.tags # <<>>
    /\ ctl' = [ctl EXCEPT !.tags = Tail(ctl.tags),
                          !.maps = WrapArg(Head(ctl.tags), ctl.maps)]
    /\ UNCHANGED <<env, draws, seen, stack, log, calls, injected, result>>

\* EnumAccess::variant_seed: the call on the wrapped accessor
EnumAccessVariantSeed ==
    /\ ctl.c = "call" /\ ctl.role = "enum_access" /\ ctl.op = "variant_seed"
    /\ ctl.tags # <<>>
    /\ ctl' = [ctl EXCEPT !.tags = Tail(ctl.tags),
                          !.maps = WrapArg(Head(ctl.tags), ctl.maps)]
    /\ stack' = Push(Frame("mapvariant", None, None, 0, FALSE, <<Head(ctl.tags)>>, <<>>, <<>>))
    /\ UNCHANGED <<env, draws, seen, log, calls, injected, result>>

\* Fault: the variant accessor is returned as the wrapped accessor gave it
MapVariant_Bare(tag, r) == r

\* The outcome of variant_seed after .map(|(value, variant)| (value, $wrapper(variant)))
MapVariant(tag, r) ==
    IF r.ok THEN [r EXCEPT !.tags = WrapArg(tag, r.tags)] ELSE r

\* EnumAccess::variant_seed: the variant accessor re-wrapped on the way out
EnumAccessVariantReturn ==
    /\ ctl.c = "ret"
    /\ stack # <<>> /\ Top.f = "mapvariant"
    /\ ctl' = MapVariant(Top.tags[1], ctl)
    /\ stack' = Pop
    /\ UNCHANGED <<env, draws, seen, log, calls, injected, result>>

\* VariantAccess::unit_variant
VariantAccessUnit ==
    /\ ctl.c = "call" /\ ctl.role = "variant_access" /\ ctl.op = "unit_variant"
    /\ ctl.tags # <<>>
    /\ ctl' = [ctl EXCEPT !.tags = Tail(ctl.tags)]
    /\ UNCHANGED <<env, draws, seen, stack, log, calls, injected, result>>

\* VariantAccess::newtype_variant_seed, tuple_variant, struct_variant
VariantAccessForward ==
    /\ ctl.c = "call" /\ ctl.role = "variant_access" /\ ctl.op \in VariantOps
    /\ ctl.tags # <<>>
    /\ ctl' = [ctl EXCEPT !.tags = Tail(ctl.tags),
                          !.maps = WrapArg(Head(ctl.tags), ctl.maps)]
    /\ UNCHANGED <<env, draws, seen, stack, log, calls, injected, result>>

(***************************************************************************)
(* Value-level decode logic                                                *)
(***************************************************************************)
Ident(i) == V("ident", "", i, "", 0, 0, <<>>, <<>>)
VariantKinds == {"unit_variant", "newtype_variant", "tuple_variant", "struct_variant"}
Unbounded == {"seq"} \cup MapShapes

DigitValue(c) ==
    CASE c = "0" -> 0 [] c = "1" -> 1 [] c = "2" -> 2 [] c = "3" -> 3 [] c = "4" -> 4
      [] c = "5" -> 5 [] c = "6" -> 6 [] c = "7" -> 7 [] c = "8" -> 8 [] c = "9" -> 9
      [] OTHER -> -1

\* str::parse::<u8>: the number (an optional + sign, then digits), or -1
\* for an Err; digit by digit, a character that is no digit is found
\* before the overflow of the number read so far
RECURSIVE ParseFrom(_, _)
ParseFrom(s, acc) ==
    IF s = <<>> THEN acc
    ELSE IF DigitValue(Head(s)) < 0 \/ acc * 10 + DigitValue(Head(s)) > 255 THEN -1
    ELSE ParseFrom(Tail(s), acc * 10 + DigitValue(Head(s)))
ParseU8(s) ==
    IF s = <<>> THEN -1
    ELSE IF Head(s) = "+" THEN (IF Tail(s) = <<>> THEN -1 ELSE ParseFrom(Tail(s), 0))
    ELSE ParseFrom(s, 0)

\* The Display form of the ParseIntError of str::parse::<u8>, "" when it
\* is Ok
RECURSIVE ParseErrorFrom(_, _)
ParseErrorFrom(s, acc) ==
    IF s = <<>> THEN ""
    ELSE IF DigitValue(Head(s)) < 0 THEN "invalid digit found in string"
    ELSE IF acc * 10 + DigitValue(Head(s)) > 255 THEN "number too large to fit in target type"
    ELSE ParseErrorFrom(Tail(s), acc * 10 + DigitValue(Head(s)))
ParseError(s) ==
    IF s = <<>> THEN "cannot parse integer from empty string"
    ELSE IF Head(s) = "+"
    THEN (IF Tail(s) = <<>> THEN "invalid digit found in string"
          ELSE ParseErrorFrom(Tail(s), 0))
    ELSE ParseErrorFrom(s, 0)

\* .map_err(D::Error::custom): an error of the deserializer's error type
\* made from a message, raised by no operation of the engine (at = 0)
CustomErr(msg) == [at |-> 0, op |-> msg]

\* parts[1] of a string without '.': the thread panics, nothing returns
Panic(msg) == Ctl("panic", "", msg, <<>>, NoMeta, <<>>, <<>>, FALSE, NoErr)

\* s.split('.').collect()
RECURSIVE SplitFrom(_, _, _)
SplitFrom(s, cur, parts) ==
    IF s = <<>> THEN Append(parts, cur)
    ELSE IF Head(s) = "." THEN SplitFrom(Tail(s), <<>>, Append(parts, cur))
    ELSE SplitFrom(Tail(s), Append(cur, Head(s)), parts)
Split(s) == SplitFrom(s, <<>>, <<>>)

\* Deserialize for Example, of the Configure doc test: a string when the
\* deserializer is human readable, a pair otherwise
ExampleDeserialize ==
    /\ ctl.c = "deserialize"
    /\ seen' = Append(seen, Observe(ctl))
    /\ ctl.vals[1].k = "example"
    /\ IF IsHumanReadable(ctl.tags)
       THEN /\ ctl' = DeserializeCall(Str(<<>>), ctl.vals[2], ctl.tags)
            /\ stack' = Push(Frame("example_parse", None, None, 0, FALSE, <<>>, <<>>, <<>>))
       ELSE /\ ctl' = DeserializeCall(Agg("tuple", "", 0, "", <<U8(0), U8(0)>>),
                                      ctl.vals[2], ctl.tags)
            /\ stack' = Push(Frame("example_pair", None, None, 0, FALSE, <<>>, <<>>, <<>>))
    /\ UNCHANGED <<env, draws, log, calls, injected, result>>

\* Example(parts[0].parse()?, parts[1].parse()?): the first part is
\* parsed, then the second is indexed, which panics when the string has
\* no '.', and parsed
ParseExample(s) ==
    LET parts == Split(s)
    IN  IF ParseU8(parts[1]) < 0 THEN RetErr(CustomErr(ParseError(parts[1])))
        ELSE IF Len(parts) < 2
        THEN Panic("index out of bounds: the len is 1 but the index is 1")
        ELSE IF ParseU8(parts[2]) < 0 THEN RetErr(CustomErr(ParseError(parts[2])))
        ELSE RetVal(<<Example(ParseU8(parts[1]), ParseU8(parts[2]))>>)

\* Deserialize for Example once the string, or the pair, is decoded; a
\* panic unwinds every caller
ExampleBuild ==
    /\ ctl.c = "ret" /\ ctl.ok
    /\ stack # <<>> /\ Top.f \in {"example_parse", "example_pair"}
    /\ ctl' = IF Top.f = "example_parse"
              THEN ParseExample(ctl.vals[1].str)
              ELSE RetVal(<<Example(ctl.vals[1].kids[1].n, ctl.vals[1].kids[2].n)>>)
    /\ stack' = IF ctl'.c = "panic" THEN <<>> ELSE Pop
    /\ UNCHANGED <<env, draws, seen, log, calls, injected, result>>

DeOp(k) ==
    CASE k = "u8" -> "deserialize_u8"
      [] k = "ident" -> "deserialize_identifier"
      [] k = "str" -> "deserialize_string"
      [] k \in {"some", "none"} -> "deserialize_option"
      [] k = "newtype_struct" -> "deserialize_newtype_struct"
      [] k = "seq" -> "deserialize_seq"
      [] k = "tuple" -> "deserialize_tuple"
      [] k = "tuple_struct" -> "deserialize_tuple_struct"
      [] k = "struct" -> "deserialize_struct"
      [] k \in MapShapes -> "deserialize_map"
      [] k \in VariantKinds -> "deserialize_enum"

\* Deserialize for scalars, options, newtypes, aggregates and enums: the
\* dispatch on the deserializer, with the type's visitor
ValueDeserialize ==
    /\ ctl.c = "deserialize"
    /\ seen' = Append(seen, Observe(ctl))
    /\ ctl.vals[1].k \notin Tags \cup {"example"}
    /\ LET t == ctl.vals[1]
           c == MethodCall("de", DeOp(t.k), ctl.tags,
                           IF DeOp(t.k) \in DeNamedOps
                           THEN Meta(t.name, 0, "", IF t.k \in VariantKinds THEN -1 ELSE Len(t.kids))
                           ELSE NoMeta,
                           ctl.vals, <<>>)
       IN  /\ ctl' = c
           /\ calls' = Issue(c)
    /\ UNCHANGED <<env, draws, stack, log, injected, result>>

\* The value-level visitor is given what the engine found
ValueVisit ==
    /\ ctl.c = "call" /\ ctl.role = "visitor" /\ ctl.tags = <<>>
    /\ ~MustFail
    /\ log' = Append(log, Entry(ctl))
    /\ LET t == ctl.vals[1]
           d == ctl.vals[2]
       IN  CASE ctl.op = "visit_u8" ->
                  /\ ctl' = RetVal(<<IF t.k = "ident" THEN Ident(ctl.meta.n) ELSE U8(ctl.meta.n)>>)
                  /\ UNCHANGED <<stack, calls>>
             [] ctl.op = "visit_str" ->
                  /\ ctl' = RetVal(<<Str(ctl.meta.str)>>)
                  /\ UNCHANGED <<stack, calls>>
             [] ctl.op = "visit_none" ->
                  /\ ctl' = RetVal(<<None>>)
                  /\ UNCHANGED <<stack, calls>>
             [] ctl.op \in {"visit_some", "visit_newtype_struct"} ->
                  /\ ctl' = DeserializeCall(t.kids[1], d, ctl.maps)
                  /\ stack' = Push(Frame("wrapkid", t, None, 0, FALSE, <<>>, <<>>, <<>>))
                  /\ UNCHANGED calls
             [] ctl.op \in {"visit_seq", "visit_map"} ->
                  /\ ctl' = RetUnit
                  /\ stack' = Push(Frame(ctl.op, t, d, 0, FALSE, ctl.maps, <<>>, <<>>))
                  /\ UNCHANGED calls
             [] ctl.op = "visit_enum" ->
                  LET c == MethodCall("enum_access", "variant_seed", ctl.maps, NoMeta,
                                      <<Ident(0), d>>, <<>>)
                  IN  /\ ctl' = c
                      /\ calls' = Issue(c)
                      /\ stack' = Push(Frame("visit_enum", t, d, 0, FALSE, <<>>, <<>>, <<>>))
    /\ UNCHANGED <<env, draws, seen, injected, result>>

\* The type of the element a visitor asks for after `n` decoded ones
ElemType(t, n) == t.kids[IF n < Len(t.kids) THEN n + 1 ELSE Len(t.kids)]

\* The next call of a visit_seq / visit_map loop on its accessor
AccessCall(fr, got) ==
    LET n == Len(got)
        at == [NoMeta EXCEPT !.n = n]
    IN  IF fr.f = "visit_seq"
        THEN MethodCall("seq_access", "next_element_seed", fr.tags, at,
                        <<ElemType(fr.v, n), fr.d>>, <<>>)
        ELSE IF fr.v.k = "map_entry"
        THEN MethodCall("map_access", "next_entry_seed", fr.tags, at,
                        <<ElemType(fr.v, n), fr.d, ElemType(fr.v, n + 1)>>, <<>>)
        ELSE MethodCall("map_access",
                        IF n % 2 = 0 THEN "next_key_seed" ELSE "next_value_seed",
                        fr.tags, at, <<ElemType(fr.v, n), fr.d>>, <<>>)

\* visit_seq / visit_map of a value-level visitor: the size hint for the
\* growable collections, then element after element until the arity is
\* reached or the accessor is exhausted
ValueVisitNext ==
    /\ ctl.c = "ret" /\ ctl.ok
    /\ stack # <<>> /\ Top.f \in {"visit_seq", "visit_map"}
    /\ LET fr == Top
           got == IF ctl.op = "value" THEN fr.vals \o ctl.vals ELSE fr.vals
           hint == fr.v.k \in Unbounded /\ ~fr.have
           ended == \/ ctl.op = "none"
                    \/ fr.v.k \notin Unbounded /\ Len(got) = Len(fr.v.kids)
           c == IF hint
                THEN MethodCall(IF fr.f = "visit_seq" THEN "seq_access" ELSE "map_access",
                                "size_hint", fr.tags, NoMeta, <<fr.v, fr.d>>, <<>>)
                ELSE AccessCall(fr, got)
       IN  IF ended
           THEN /\ ctl' = RetVal(<<Agg(fr.v.k, fr.v.name, fr.d.idx, fr.d.variant, got)>>)
                /\ stack' = Pop
                /\ UNCHANGED calls
           ELSE /\ ctl' = c
                /\ calls' = Issue(c)
                /\ stack' = Append(Pop, [fr EXCEPT !.vals = got, !.have = TRUE])
    /\ UNCHANGED <<env, draws, seen, log, injected, result>>

\* visit_enum of a value-level visitor once variant_seed has returned the
\* variant and its accessor
ValueVariant ==
    /\ ctl.c = "ret" /\ ctl.ok
    /\ stack # <<>> /\ Top.f = "visit_enum"
    /\ LET t == Top.v
           d == Top.d
           c == CASE t.k = "unit_variant" ->
                       MethodCall("variant_access", "unit_variant", ctl.tags, NoMeta, <<t, d>>, <<>>)
                  [] t.k = "newtype_variant" ->
                       MethodCall("variant_access", "newtype_variant_seed", ctl.tags, NoMeta,
                                  <<t.kids[1], d>>, <<>>)
                  [] t.k = "tuple_variant" ->
                       MethodCall("variant_access", "tuple_variant", ctl.tags,
                                  Meta("", 0, "", Len(t.kids)), <<t, d>>, <<>>)
                  [] t.k = "struct_variant" ->
                       MethodCall("variant_access", "struct_variant", ctl.tags,
                                  Meta("", 0, "", Len(t.kids)), <<t, d>>, <<>>)
       IN  /\ ctl' = c
           /\ calls' = Issue(c)
           /\ stack' = IF t.k \in {"unit_variant", "newtype_variant"}
                       THEN Append(Pop, Frame("wrapkid", t, d, 0, FALSE, <<>>, <<>>, <<>>))
                       ELSE Pop
    /\ UNCHANGED <<env, draws, seen, log, injected, result>>

\* visit_some, visit_newtype_struct and the newtype and unit variants: the
\* decoded payload inside its constructor
ValueWrapKid ==
    /\ ctl.c = "ret" /\ ctl.ok
    /\ stack # <<>> /\ Top.f = "wrapkid"
    /\ ctl' = RetVal(<<Agg(Top.v.k, Top.v.name, Top.d.idx, Top.d.variant,
                          IF ctl.op = "value" THEN ctl.vals ELSE <<>>)>>)
    /\ stack' = Pop
    /\ UNCHANGED <<env, draws, seen, log, calls, injected, result>>

\* DeserializeSeed for PhantomData<T>: T::deserialize on the deserializer given
ValueSeed ==
    /\ ctl.c = "call" /\ ctl.role = "seed" /\ ctl.tags = <<>>
    /\ ~MustFail
    /\ log' = Append(log, Entry(ctl))
    /\ ctl' = DeserializeCall(ctl.vals[1], ctl.vals[2], ctl.maps)
    /\ UNCHANGED <<env, draws, seen, stack, calls, injected, result>>

(***************************************************************************)
(* The wrapped engine, read side: holds the data, answers each dispatch    *)
(* with the visit that fits the data, refuses a dispatch the data does not *)
(* fit, and may fail at any operation                                      *)
(***************************************************************************)
\* What a value serializes to under the mode in force at each of its
\* parts: the innermost tag around the part, else the engine's own flag
RECURSIVE DataOf(_, _)
DataOf(v, hr) ==
    CASE v.k \in Tags -> DataOf(v.kids[1], v.k = "Readable")
      [] v.k = "example" ->
           IF hr THEN Str(Format(v.n, v.m))
           ELSE Agg("tuple", "", 0, "", <<U8(v.n), U8(v.m)>>)
      [] OTHER -> [v EXCEPT !.kids = [i \in 1..Len(v.kids) |-> DataOf(v.kids[i], hr)]]

Fits(op, d) ==
    CASE op = "deserialize_enum" -> d.k \in VariantKinds
      [] op = "deserialize_option" -> d.k \in {"some", "none"}
      [] op = "deserialize_map" -> d.k \in MapShapes
      [] OTHER -> op = DeOp(d.k)

VisitOp(d) ==
    CASE d.k \in {"u8", "ident"} -> "visit_u8"
      [] d.k = "str" -> "visit_str"
      [] d.k = "none" -> "visit_none"
      [] d.k = "some" -> "visit_some"
      [] d.k = "newtype_struct" -> "visit_newtype_struct"
      [] d.k \in {"seq", "tuple", "tuple_struct", "struct"} -> "visit_seq"
      [] d.k \in MapShapes -> "visit_map"
      [] d.k \in VariantKinds -> "visit_enum"

\* A deserialize_* dispatch reaches the engine
EngineDeserialize ==
    /\ ctl.c = "call" /\ ctl.role = "de" /\ ctl.tags = <<>>
    /\ ~MustFail
    /\ log' = Append(log, Entry(ctl))
    /\ LET t == ctl.vals[1]
           d == ctl.vals[2]
           e == [at |-> Len(log) + 1, op |-> "invalid type"]
           c == MethodCall("visitor", VisitOp(d), ctl.maps,
                           [NoMeta EXCEPT !.n = IF d.k = "ident" THEN d.idx ELSE d.n,
                                          !.str = d.str],
                           <<t, IF d.k \in {"some", "newtype_struct"} THEN d.kids[1] ELSE d>>,
                           <<>>)
       IN  IF Fits(ctl.op, d)
           THEN /\ ctl' = c
                /\ calls' = Issue(c)
                /\ UNCHANGED injected
           ELSE /\ ctl' = RetErr(e)
                /\ injected' = IF injected.at = 0 THEN e ELSE injected
                /\ UNCHANGED calls
    /\ UNCHANGED <<env, draws, seen, stack, result>>

AccessRoles == {"seq_access", "map_access", "enum_access", "variant_access"}

\* An accessor operation reaches the engine
EngineAccess ==
    /\ ctl.c = "call" /\ ctl.role \in AccessRoles /\ ctl.tags = <<>>
    /\ ~MustFail
    /\ log' = Append(log, Entry(ctl))
    /\ LET t == ctl.vals[1]
           d == ctl.vals[2]
           n == ctl.meta.n
           seed(ty, da) == MethodCall("seed", "deserialize", ctl.maps, NoMeta, <<ty, da>>, <<>>)
       IN  CASE ctl.op = "size_hint" ->
                  /\ ctl' = RetHint(Len(d.kids))
                  /\ UNCHANGED <<stack, calls>>
             [] ctl.op = "unit_variant" ->
                  /\ ctl' = RetUnit
                  /\ UNCHANGED <<stack, calls>>
             [] ctl.op \in {"next_element_seed", "next_key_seed", "next_value_seed"} ->
                  IF n < Len(d.kids)
                  THEN /\ ctl' = seed(t, d.kids[n + 1])
                       /\ calls' = Issue(seed(t, d.kids[n + 1]))
                       /\ UNCHANGED stack
                  ELSE /\ ctl' = RetNone
                       /\ UNCHANGED <<stack, calls>>
             [] ctl.op = "next_entry_seed" ->
                  IF n < Len(d.kids)
                  THEN /\ ctl' = seed(t, d.kids[n + 1])
                       /\ calls' = Issue(seed(t, d.kids[n + 1]))
                       /\ stack' = Push(Frame("entry_de", ctl.vals[3], d.kids[n + 2], 0, FALSE,
                                              <<>>, <<>>, ctl.maps))
                  ELSE /\ ctl' = RetNone
                       /\ UNCHANGED <<stack, calls>>
             [] ctl.op = "variant_seed" ->
                  /\ ctl' = seed(t, Ident(d.idx))
                  /\ calls' = Issue(seed(t, Ident(d.idx)))
                  /\ stack' = Push(Frame("variant_ret", None, None, 0, FALSE, <<>>, <<>>, <<>>))
             [] ctl.op = "newtype_variant_seed" ->
                  /\ ctl' = seed(t, d.kids[1])
                  /\ calls' = Issue(seed(t, d.kids[1]))
                  /\ UNCHANGED stack
             [] ctl.op \in {"tuple_variant", "struct_variant"} ->
                  LET c == MethodCall("visitor", "visit_seq", ctl.maps, NoMeta, <<t, d>>, <<>>)
                  IN  /\ ctl' = c
                      /\ calls' = Issue(c)
                      /\ UNCHANGED stack
    /\ UNCHANGED <<env, draws, seen, injected, result>>

\* next_entry_seed of the engine's map accessor: the value seed after the
\* key seed, then the pair
EngineEntrySeed ==
    /\ ctl.c = "ret" /\ ctl.ok
    /\ stack # <<>> /\ Top.f = "entry_de"
    /\ IF ~Top.have
       THEN LET c == MethodCall("seed", "deserialize", Top.maps, NoMeta, <<Top.v, Top.d>>, <<>>)
            IN  /\ ctl' = c
                /\ calls' = Issue(c)
                /\ stack' = Append(Pop, [Top EXCEPT !.have = TRUE, !.vals = ctl.vals])
       ELSE /\ ctl' = RetVal(Top.vals \o ctl.vals)
            /\ stack' = Pop
            /\ UNCHANGED calls
    /\ UNCHANGED <<env, draws, seen, log, injected, result>>

\* variant_seed of the engine's enum accessor: the decoded variant with the
\* accessor of its payload
EngineVariantReturn ==
    /\ ctl.c = "ret" /\ ctl.ok
    /\ stack # <<>> /\ Top.f = "variant_ret"
    /\ ctl' = RetVariant(ctl.vals[1], <<>>)
    /\ stack' = Pop
    /\ UNCHANGED <<env, draws, seen, log, calls, injected, result>>

(***************************************************************************)
(* The error type: src/src/error.rs                                        *)
(***************************************************************************)
\* Longest message text, and longest text an error is compared with
MaxMsgLen == 2

RECURSIVE TextsUpTo(_)
TextsUpTo(n) ==
    IF n = 0 THEN {<<>>}
    ELSE LET S == TextsUpTo(n - 1)
         IN  S \cup {Append(t, c) : t \in S, c \in {"a", "b"}}

\* The messages given to custom: any Display value, here a text or a u8
Messages ==
    {[k |-> "str", str |-> t, n |-> 0] : t \in TextsUpTo(MaxMsgLen)}
    \cup {[k |-> "u8", str |-> <<>>, n |-> n] : n \in {0, 7, 10, 255}}

\* msg.to_string(): the Display form
DisplayForm(m) == IF m.k = "str" THEN m.str ELSE DecStr(m.n)

\* The texts an error is compared with
Others == TextsUpTo(MaxMsgLen) \cup {DisplayForm(m) : m \in Messages}

\* <Error as ser::Error>::custom
SerCustom(m) == [msg |-> DisplayForm(m)]

\* Fault: the message is kept in its Debug form
DeCustom_Debug(m) ==
    [msg |-> IF m.k = "str" THEN <<"\"">> \o m.str \o <<"\"">> ELSE DecStr(m.n)]

\* <Error as de::Error>::custom
DeCustom(m) == [msg |-> DisplayForm(m)]

\* <Error as Display>::fmt: formatter.write_str(&self.msg)
ErrorDisplay(e) == e.msg

\* <Error as PartialEq<str>>::eq
ErrorEq(e, other) == e.msg = other

EtIdle == [pc |-> "idle", via |-> "", input |-> [k |-> "str", str |-> <<>>, n |-> 0],
           err |-> [msg |-> <<>>], shown |-> <<>>, other |-> <<>>, eq |-> FALSE]

main == <<side, root, engineHR, ctl, stack, log, calls, seen, injected, result, pass, first,
          draws, place>>

ErrCustom ==
    /\ et.pc = "new"
    /\ et' = [et EXCEPT !.pc = "built",
                        !.err = IF et.via = "ser" THEN SerCustom(et.input)
                                ELSE DeCustom(et.input)]
    /\ UNCHANGED main

ErrDisplay ==
    /\ et.pc = "built"
    /\ et' = [et EXCEPT !.pc = "shown", !.shown = ErrorDisplay(et.err)]
    /\ UNCHANGED main

ErrCompare ==
    /\ et.pc = "shown"
    /\ \E s \in Others :
         et' = [et EXCEPT !.pc = "compared", !.other = s, !.eq = ErrorEq(et.err, s)]
    /\ UNCHANGED main

\* The entry point returns to its caller
Finish ==
    /\ ctl.c = "ret" /\ stack = <<>>
    /\ result' = ctl
    /\ ctl' = Done
    /\ UNCHANGED <<env, draws, seen, stack, log, calls, injected>>

\* The entry point is called on `v` with the bare engine
Start(s, v, hr) ==
    IF s = "ser" THEN SerializeCall(v, <<>>)
    ELSE DeserializeCall(v, DataOf(v, hr), <<>>)

\* What the engine received, without the objects passed along
Ops(l) == [i \in 1..Len(l) |-> [op |-> l[i].op, role |-> l[i].role, meta |-> l[i].meta]]
\* The flags value-level logic observed
Flags(sn) == [i \in 1..Len(sn) |-> [k |-> sn[i].k, n |-> sn[i].n, hr |-> sn[i].hr]]

\* A value tagged twice with the same tag has been processed, or a tagged
\* value with no mode-sensitive part: the value with its outer tag off is
\* processed with the same engine, failing at the same operation if the
\* first run failed
CompareRun ==
    /\ ctl.c = "done" /\ pass = 1
    /\ ~place.on
    /\ root.k \in Tags
    /\ root.kids[1].k = root.k \/ ModeFree(root.kids[1])
    /\ pass' = 2
    /\ first' = [ops |-> Ops(log), seen |-> Flags(seen), result |-> result,
                 failAt |-> injected.at]
    /\ root' = root.kids[1]
    /\ ctl' = Start(side, root.kids[1], engineHR)
    /\ stack' = <<>>
    /\ log' = <<>>
    /\ calls' = [n |-> 0, last |-> Entry(Done)]
    /\ seen' = <<>>
    /\ injected' = NoErr
    /\ result' = Done
    /\ draws' = NoDraws
    /\ UNCHANGED <<side, engineHR, et, place>>

Init ==
    /\ side \in {"ser", "de"}
    /\ root \in IF side = "ser" THEN Roots ELSE ReadRoots
    /\ engineHR \in BOOLEAN
    /\ place \in {NoPlace} \cup (IF side = "de" /\ root.k \in Tags
                                  THEN {[on |-> TRUE, val |-> PlaceOf(root), at |-> 0]}
                                  ELSE {})
    /\ ctl = IF place.on THEN InPlaceCall(root, DataOf(root, engineHR), <<>>)
             ELSE Start(side, root, engineHR)
    /\ stack = <<>>
    /\ log = <<>>
    /\ calls = [n |-> 0, last |-> Entry(Done)]
    /\ seen = <<>>
    /\ injected = NoErr
    /\ result = Done
    /\ pass = 1
    /\ first = [ops |-> <<>>, seen |-> <<>>, result |-> Done, failAt |-> 0]
    /\ draws = NoDraws
    /\ et = EtIdle

Next ==
    \/ TagSerialize
    \/ SerializerForwardScalar
    \/ SerializerForwardNewtype
    \/ SerializerForwardBegin
    \/ SerializerBeginReturn
    \/ SerializerForwardCollect
    \/ BuilderForwardValue
    \/ BuilderSkipField
    \/ BuilderEnd
    \/ ExampleSerialize
    \/ ValueSerialize
    \/ ValueAggNext
    \/ PropagateError
    \/ InnerFail
    \/ EngineOp
    \/ EngineEntryValue
    \/ EngineCollectNext
    \/ TagDeserialize
    \/ TagDeserializeReturn
    \/ TagDeserializeInPlace
    \/ DefaultInPlace
    \/ AssignInPlace
    \/ SeedDeserialize
    \/ DeserializerForward
    \/ DeserializerForwardNamed
    \/ VisitorForwardScalar
    \/ VisitorForwardNested
    \/ SeqAccessNextElement
    \/ AccessSizeHint
    \/ MapAccessNext
    \/ EnumAccessVariantSeed
    \/ EnumAccessVariantReturn
    \/ VariantAccessUnit
    \/ VariantAccessForward
    \/ ExampleDeserialize
    \/ ExampleBuild
    \/ ValueDeserialize
    \/ ValueVisit
    \/ ValueVisitNext
    \/ ValueVariant
    \/ ValueWrapKid
    \/ ValueSeed
    \/ EngineDeserialize
    \/ EngineAccess
    \/ EngineEntrySeed
    \/ EngineVariantReturn
    \/ Finish
    \/ CompareRun

Spec == Init /\ [][Next]_vars

\* An error is built from a message on either side, displayed and compared
ErrInit ==
    /\ side = "ser"
    /\ root = None
    /\ engineHR = FALSE
    /\ ctl = Done
    /\ stack = <<>>
    /\ log = <<>>
    /\ calls = [n |-> 0, last |-> Entry(Done)]
    /\ seen = <<>>
    /\ injected = NoErr
    /\ result = Done
    /\ pass = 1
    /\ first = [ops |-> <<>>, seen |-> <<>>, result |-> Done, failAt |-> 0]
    /\ draws = NoDraws
    /\ place = NoPlace
    /\ \E v \in {"ser", "de"}, m \in Messages :
         et = [EtIdle EXCEPT !.pc = "new", !.via = v, !.input = m]

ErrNext ==
    \/ ErrCustom
    \/ ErrDisplay
    \/ ErrCompare

ErrSpec == ErrInit /\ [][ErrNext]_vars

(***************************************************************************)
(* Properties                                                              *)
(***************************************************************************)
\* The tags a value carries before its first untagged part, outermost first
RECURSIVE RootTags(_)
RootTags(v) == IF v.k \in Tags THEN <<v.k>> \o RootTags(v.kids[1]) ELSE <<>>

\* What the decode entry point produced: its Ok value, or what its place
\* holds when it decoded in place
Decoded == IF place.on THEN <<place.val>> ELSE result.vals

\* The value under those tags
RECURSIVE Body(_)
Body(v) == IF v.k \in Tags THEN Body(v.kids[1]) ELSE v

RECURSIVE TagFree(_)
TagFree(v) == v.k \notin Tags /\ \A i \in 1..Len(v.kids) : TagFree(v.kids[i])

\* The root is a value with no tag inside, under one mode applied once or more
OneMode ==
    /\ root.k \in Tags
    /\ \A i \in 1..Len(RootTags(root)) : RootTags(root)[i] = root.k
    /\ TagFree(Body(root))

\* An engine inside the wrappers `chain` answers the mode query like tag `m`
Reports(chain, m) == IsHumanReadable(chain) = (m = "Readable")

\* `v` with `n` tags taken off; Skip, which no call carries, if it has fewer
RECURSIVE Unwrapped(_, _)
Unwrapped(n, v) ==
    IF n = 0 THEN v
    ELSE IF v.k \in Tags THEN Unwrapped(n - 1, v.kids[1])
    ELSE Skip

IsPrefix(a, b) == Len(a) <= Len(b) /\ a = SubSeq(b, 1, Len(a))

\* C1: an engine whose outermost wrapper is Readable answers
\* is_human_readable() with true, one whose outermost wrapper is Compact
\* with false, on the write and on the read side, whatever the wrapped
\* engine's own flag and however many callers are suspended.
ModeFidelity ==
    /\ \A i \in 1..Len(seen) :
         /\ seen[i].w = "Readable" => seen[i].hr
         /\ seen[i].w = "Compact" => ~seen[i].hr
    /\ ctl.c \in {"serialize", "deserialize"} /\ ctl.tags # <<>>
         => IsHumanReadable(ctl.tags) = (Head(ctl.tags) = "Readable")

\* A Readable deserializer answered true to the element of a sequence
\* inside a tuple variant, over an engine that answers false
ModeFidelityReached ==
    /\ side = "de" /\ ~engineHR /\ root = Wrap("Readable", Nested)
    /\ \E i \in 1..Len(seen) :
         /\ seen[i].k = "example" /\ seen[i].depth >= 2
         /\ seen[i].w = "Readable" /\ seen[i].hr

\* C2: on the write side, under a root of mode M, every serializer handed
\* to the encode logic of a nested value (an element, field, key, value or
\* entry of the seven aggregates, a newtype or Some payload, a collect_seq
\* or collect_map item) reports M, and every builder an aggregate-begin
\* returns to the encode logic is wrapped in M.
WritePropagation ==
    side = "ser" /\ OneMode =>
      /\ ctl.c = "serialize" /\ ctl.vals[1].k \notin Tags
           => Reports(ctl.tags, root.k)
      /\ ctl.c = "ret" /\ ctl.op = "builder" /\ stack # <<>> /\ Top.f = "agg"
           => ctl.tags # <<>> /\ Head(ctl.tags) = root.k

\* The mode-sensitive element of a sequence inside a tuple variant tagged
\* Compact is handed a serializer that answers false, over an engine that
\* answers true
WritePropagationReached ==
    /\ side = "ser" /\ root = Wrap("Compact", Nested) /\ engineHR
    /\ ctl.c = "serialize" /\ ctl.vals[1].k = "example"
    /\ ~IsHumanReadable(ctl.tags)

\* C3: on the read side, under a root of mode M, every deserializer that
\* reaches value-level decode logic reports M: the one given to visit_some
\* and visit_newtype_struct, the one given to every seed by the sequence,
\* map, enum and variant accessors; the visitors given to tuple_variant
\* and struct_variant are wrapped in M, and so is the variant accessor
\* variant_seed returns.
ReadPropagation ==
    side = "de" /\ OneMode =>
      /\ ctl.c = "deserialize" /\ ctl.vals[1].k \notin Tags
           => Reports(ctl.tags, root.k)
      /\ \A i \in 1..Len(log) :
           /\ log[i].role = "visitor" /\ log[i].op \in {"visit_some", "visit_newtype_struct"}
                => Reports(log[i].maps, root.k)
           /\ log[i].role = "seed" => Reports(log[i].maps, root.k)
           /\ log[i].role = "variant_access" /\ log[i].op \in {"tuple_variant", "struct_variant"}
                => log[i].maps # <<>> /\ Head(log[i].maps) = root.k
      /\ ctl.c = "ret" /\ ctl.op = "variant" /\ stack # <<>> /\ Top.f = "visit_enum"
           => ctl.tags # <<>> /\ Head(ctl.tags) = root.k

\* The mode-sensitive element of a sequence inside a tuple variant tagged
\* Readable is decoded from a deserializer that answers true, over an
\* engine that answers false
ReadPropagationReached ==
    /\ side = "de" /\ root = Wrap("Readable", Nested) /\ ~engineHR
    /\ ctl.c = "deserialize" /\ ctl.vals[1].k = "example"
    /\ IsHumanReadable(ctl.tags)
    /\ \E i \in 1..Len(log) : log[i].op = "tuple_variant"

\* The objects a received call carries are those of the call made, inside
\* the wrappers of the receiver it was made on
SameObjects(r, c) ==
    /\ Len(r.vals) = Len(c.vals)
    /\ IF side = "ser" /\ c.op \in NewtypeOps \cup ElementOps
       THEN \A i \in 1..Len(c.vals) : Unwrapped(Len(c.tags), r.vals[i]) = c.vals[i]
       ELSE r.vals = c.vals
    /\ IF side = "ser"
       THEN IsPrefix(c.maps, r.maps)
       ELSE Len(r.maps) >= Len(c.maps)
            /\ SubSeq(r.maps, Len(r.maps) - Len(c.maps) + 1, Len(r.maps)) = c.maps

\* C4: the wrapped engine and its builders, visitors and accessors receive
\* the calls made on their wrappers, one for one and in order, with the
\* same operation and the same names, indices, labels, lengths and scalar
\* payloads, the objects passed differing by their wrappers only; for a
\* value with no mode-sensitive part the sequence received and the result
\* are those of the run without the tag.
PassThrough ==
    /\ Len(log) \in {calls.n - 1, calls.n}
    /\ ctl.c = "call" =>
         /\ Len(log) = calls.n - 1
         /\ ctl.op = calls.last.op /\ ctl.role = calls.last.role
         /\ ctl.meta = calls.last.meta
    /\ Len(log) = calls.n /\ calls.n > 0 =>
         LET r == log[Len(log)]
             c == calls.last
         IN  /\ r.op = c.op /\ r.role = c.role /\ r.meta = c.meta
             /\ r.tags = <<>>
             /\ SameObjects(r, c)
    /\ pass = 2 /\ ctl.c = "done" /\ root.k \notin Tags =>
         /\ Ops(log) = first.ops
         /\ result.ok = first.result.ok /\ result.err = first.result.err
         /\ side = "de" /\ result.ok
              => \E t \in Tags : first.result.vals = <<Wrap(t, result.vals[1])>>

\* A value encoded under a tag and then without it: the engine received
\* five operations or more both times, an aggregate-begin among them
PassThroughReached ==
    /\ pass = 2 /\ ctl.c = "done" /\ root.k \notin Tags
    /\ side = "ser" /\ result.ok
    /\ Len(log) >= 5
    /\ \E i \in 1..Len(log) : log[i].op \in BeginOps /\ log[i].meta.len = 2

\* C5: a failure of the wrapped engine, builder, visitor or accessor
\* reaches the caller of the overlay, and the caller of the entry point,
\* as the very error raised, and no failure is returned unless the wrapped
\* object raised one.
ErrorTransparency ==
    /\ ctl.c = "ret" /\ ~ctl.ok => injected.at # 0 /\ ctl.err = injected
    /\ ctl.c = "done" /\ ~result.ok => injected.at # 0 /\ result.err = injected
    /\ injected.at # 0 =>
         \/ ctl.c = "ret" /\ ~ctl.ok
         \/ ctl.c = "done" /\ ~result.ok

\* The aggregate-begin of a tagged value failed in the engine and the
\* entry point returned that error
ErrorTransparencyReached ==
    /\ side = "ser" /\ root.k \in Tags
    /\ ctl.c = "done" /\ ~result.ok
    /\ injected.op \in BeginOps /\ result.err = injected

\* C6: a value under the same tag twice is processed as under that tag
\* once: value-level logic observes the same flags in the same order, the
\* engine receives the same operations, and the entry point returns the
\* same result (the decoded value inside one more tag).
IdempotentDoubleWrap ==
    pass = 2 /\ ctl.c = "done" /\ root.k \in Tags =>
      /\ Flags(seen) = first.seen
      /\ Ops(log) = first.ops
      /\ result.ok = first.result.ok /\ result.err = first.result.err
      /\ result.op = first.result.op
      /\ side = "de" /\ result.ok
           => first.result.vals = <<Wrap(root.k, result.vals[1])>>

\* Compact(Compact(v)) and then Compact(v) encoded into an engine that
\* answers true, v having a mode-sensitive part inside two aggregates
IdempotentDoubleWrapReached ==
    /\ pass = 2 /\ ctl.c = "done" /\ side = "ser"
    /\ root = Wrap("Compact", Nested) /\ engineHR
    /\ result.ok /\ Len(first.ops) >= 6

\* The root is a value with no tag inside, under two different tags
Mixed ==
    /\ Len(RootTags(root)) = 2
    /\ RootTags(root)[1] # RootTags(root)[2]
    /\ TagFree(Body(root))

\* C7: under two different tags the encode and decode logic of the value
\* and of every part of it, at every depth, observes the flag of the tag
\* applied closest to the value.
MixedInnermost ==
    Mixed =>
      /\ \A i \in 1..Len(seen) : seen[i].hr = (RootTags(root)[2] = "Readable")
      /\ ctl.c \in {"serialize", "deserialize"} /\ ctl.vals[1].k \notin Tags
           => Reports(ctl.tags, RootTags(root)[2])

\* v.readable().compact(): the mode-sensitive part of v, inside two
\* aggregates, is handed a serializer that answers true
MixedInnermostReached ==
    /\ side = "ser" /\ ~engineHR
    /\ root = Wrap("Compact", Wrap("Readable", Nested))
    /\ ctl.c = "serialize" /\ ctl.vals[1].k = "example"
    /\ IsHumanReadable(ctl.tags)
    /\ Len(stack) >= 2

\* begin-struct("X", 2), field("a", 1), field("b", 2), end, each field
\* followed by the scalar write of its value
StructXOps ==
    <<[op |-> "serialize_struct", role |-> "ser", meta |-> Meta("X", 0, "", 2)],
      [op |-> "serialize_field", role |-> "struct", meta |-> [NoMeta EXCEPT !.name = "a"]],
      [op |-> "serialize_u8", role |-> "ser", meta |-> [NoMeta EXCEPT !.n = 1]],
      [op |-> "serialize_field", role |-> "struct", meta |-> [NoMeta EXCEPT !.name = "b"]],
      [op |-> "serialize_u8", role |-> "ser", meta |-> [NoMeta EXCEPT !.n = 2]],
      [op |-> "end", role |-> "struct", meta |-> NoMeta]>>

\* C8: X {a: 1, b: 2} tagged Compact and encoded: the engine receives
\* begin-struct("X", 2), field("a") with 1, field("b") with 2, end, in
\* that order and nothing else, and the serializers that the writes of 1
\* and of 2 are made on answer false.
CompactStructScenario ==
    side = "ser" /\ root = Wrap("Compact", StructX) =>
      /\ IsPrefix(Ops(log), StructXOps)
      /\ \A i \in 1..Len(log) :
           log[i].op = "serialize_field"
             => log[i].vals = <<Wrap("Compact", U8(IF log[i].meta.name = "a" THEN 1 ELSE 2))>>
      /\ \A i \in 1..Len(seen) : seen[i].k = "u8" => ~seen[i].hr
      /\ ctl.c = "done" /\ result.ok =>
           /\ Ops(log) = StructXOps
           /\ Flags(seen) = <<[k |-> "struct", n |-> 0, hr |-> FALSE],
                              [k |-> "u8", n |-> 1, hr |-> FALSE],
                              [k |-> "u8", n |-> 2, hr |-> FALSE]>>

\* The struct was encoded into an engine that answers true
CompactStructScenarioReached ==
    /\ side = "ser" /\ root = Wrap("Compact", StructX) /\ engineHR
    /\ ctl.c = "done" /\ result.ok
    /\ Len(log) = 6

\* C9: Some(1) decoded under Readable: the deserializer the value-level
\* visitor is given in visit_some answers true, and so does the
\* deserializer the payload dispatches deserialize_u8 on, whatever the
\* engine's own answer.
ReadableSomeScenario ==
    side = "de" /\ root = Wrap("Readable", Agg("some", "", 0, "", <<U8(1)>>)) =>
      /\ ctl.c = "call" /\ ctl.role = "visitor" /\ ctl.op = "visit_some" /\ ctl.tags = <<>>
           => IsHumanReadable(ctl.maps)
      /\ ctl.c = "deserialize" /\ ctl.vals[1].k = "u8"
           => IsHumanReadable(ctl.tags)
      /\ \A i \in 1..Len(seen) : seen[i].k = "u8" => seen[i].hr

\* The payload's decode logic holds its deserializer, over an engine that
\* answers false, after visit_some
ReadableSomeScenarioReached ==
    /\ side = "de" /\ root = Wrap("Readable", Agg("some", "", 0, "", <<U8(1)>>))
    /\ ~engineHR
    /\ ctl.c = "deserialize" /\ ctl.vals[1].k = "u8"
    /\ \E i \in 1..Len(log) : log[i].op = "visit_some"

\* The tokens of serde_test for the operations of the doc test's value: a
\* tuple opens with its length and closes at end, a scalar is one token,
\* an element call adds none
Token(e) ==
    CASE e.op = "serialize_tuple" -> <<[t |-> "Tuple", len |-> e.meta.len, n |-> 0, str |-> <<>>]>>
      [] e.op = "serialize_u8" -> <<[t |-> "U8", len |-> 0, n |-> e.meta.n, str |-> <<>>]>>
      [] e.op = "serialize_str" -> <<[t |-> "Str", len |-> 0, n |-> 0, str |-> e.meta.str]>>
      [] e.op = "end" /\ e.role = "tuple" -> <<[t |-> "TupleEnd", len |-> 0, n |-> 0, str |-> <<>>]>>
      [] e.op = "serialize_element" -> <<>>
      [] OTHER -> <<[t |-> e.op, len |-> 0, n |-> 0, str |-> <<>>]>>

RECURSIVE Tokens(_)
Tokens(l) == IF l = <<>> THEN <<>> ELSE Token(Head(l)) \o Tokens(Tail(l))

\* Tuple { len: 2 }, U8(1), U8(0), TupleEnd
CompactTokens ==
    <<[t |-> "Tuple", len |-> 2, n |-> 0, str |-> <<>>],
      [t |-> "U8", len |-> 0, n |-> 1, str |-> <<>>],
      [t |-> "U8", len |-> 0, n |-> 0, str |-> <<>>],
      [t |-> "TupleEnd", len |-> 0, n |-> 0, str |-> <<>>]>>

\* Str("1.0")
ReadableTokens == <<[t |-> "Str", len |-> 0, n |-> 0, str |-> <<"1", ".", "0">>]>>

\* C10: Example(1, 0).compact() serializes to Tuple { len: 2 }, U8(1),
\* U8(0), TupleEnd and Example(1, 0).readable() to Str("1.0"), whatever
\* the engine's own flag; decoding under the same tag asks the engine for
\* a tuple, respectively a string, and yields the tagged value back.
ExampleTokens ==
    /\ side = "ser" /\ root = Wrap("Compact", Example(1, 0)) =>
         /\ IsPrefix(Tokens(log), CompactTokens)
         /\ ctl.c = "done" /\ result.ok => Tokens(log) = CompactTokens
    /\ side = "ser" /\ root = Wrap("Readable", Example(1, 0)) =>
         /\ IsPrefix(Tokens(log), ReadableTokens)
         /\ ctl.c = "done" /\ result.ok => Tokens(log) = ReadableTokens
    /\ side = "de" /\ root = Wrap("Compact", Example(1, 0)) =>
         /\ log # <<>> => log[1].op = "deserialize_tuple" /\ log[1].meta.len = 2
         /\ ctl.c = "done" =>
              /\ injected.at = 0 => result.ok
              /\ result.ok => Decoded = <<root>>
    /\ side = "de" /\ root = Wrap("Readable", Example(1, 0)) =>
         /\ log # <<>> => log[1].op = "deserialize_string"
         /\ ctl.c = "done" =>
              /\ injected.at = 0 => result.ok
              /\ result.ok => Decoded = <<root>>

\* Example(1, 0).compact() came back from the pair held by an engine that
\* answers true
ExampleTokensReached ==
    /\ side = "de" /\ root = Wrap("Compact", Example(1, 0)) /\ engineHR
    /\ ctl.c = "done" /\ result.ok
    /\ result.vals = <<Wrap("Compact", Example(1, 0))>>
    /\ \E i \in 1..Len(log) : log[i].op = "visit_u8" /\ log[i].meta.n = 1

\* The text custom is expected to keep for a message: the text itself, or
\* the decimal digits of the number with no sign and no leading zero
IsDisplayOf(t, m) ==
    IF m.k = "str" THEN t = m.str
    ELSE /\ ParseU8(t) = m.n
         /\ t # <<>> /\ Head(t) # "+"
         /\ Len(t) > 1 => Head(t) # "0"

\* C11: an error has the message and nothing else; custom of the write
\* side and custom of the read side both keep the Display form of the
\* message; displaying the error gives that text, and the error equals a
\* text exactly when the text is the message.
ErrorIsMessage ==
    /\ DOMAIN et.err = {"msg"}
    /\ et.pc \in {"built", "shown", "compared"} => IsDisplayOf(et.err.msg, et.input)
    /\ et.pc \in {"shown", "compared"} => IsDisplayOf(et.shown, et.input) /\ et.shown = et.err.msg
    /\ et.pc = "compared" => (et.eq <=> IsDisplayOf(et.other, et.input))

\* The read-side custom(255) was displayed and found equal to "255"
ErrorIsMessageReached ==
    /\ et.pc = "compared" /\ et.via = "de"
    /\ et.input.k = "u8" /\ et.input.n = 255
    /\ et.shown = <<"2", "5", "5">>
    /\ et.eq

\* A value with no lazy collection inside
RECURSIVE NoCollect(_)
NoCollect(v) ==
    /\ v.k \notin CollectKinds
    /\ \A i \in 1..Len(v.kids) : NoCollect(v.kids[i])

\* The root is one lazy collection of plain items, under its tags
OneSource ==
    /\ Body(root).k \in CollectKinds
    /\ \A i \in 1..Len(Body(root).kids) : NoCollect(Body(root).kids[i])

\* C12: collect_seq and collect_map hand the engine the source itself, with
\* nothing pulled; an item (an element, or a key with its value) is pulled
\* from the source only when the engine asks for one, so that the items
\* pulled are as many as the engine asked for; the engine is given each
\* item inside the overlay's tag, in source order; a source the engine
\* stops reading is pulled no further.
LazyCollect ==
    /\ draws.pulled = draws.asked
    /\ Len(draws.items) = Len(draws.src)
    /\ ctl.c = "call" /\ ctl.op \in CollectOps
         => ctl.meta.n = 0 /\ ctl.vals = calls.last.vals
    /\ side = "ser" /\ OneMode =>
         \A j \in 1..Len(draws.items) :
            /\ draws.items[j].k = root.k
            /\ Unwrapped(Len(RootTags(root)), draws.items[j]) = draws.src[j]
    /\ side = "ser" /\ OneSource =>
         /\ IsPrefix(draws.src, Body(root).kids)
         /\ ctl.c = "done" /\ result.ok => draws.src = Body(root).kids

\* The engine failed at the second of three items of a sequence collected
\* under Compact: two items were pulled, the second given inside Compact
LazyCollectReached ==
    /\ side = "ser" /\ root = Wrap("Compact", LazySeq)
    /\ ctl.c = "done" /\ ~result.ok
    /\ draws.asked = 2 /\ draws.pulled = 2
    /\ draws.items[2] = Wrap("Compact", Example(1, 0))

\* C13: a call on a wrapper is followed by exactly the call of the same
\* operation on the object it wraps, before anything else reaches the
\* engine and with no other call made; the outcome of an aggregate-begin
\* or of variant_seed comes back through the wrapper as the wrapped object
\* gave it, success or failure; and an answer to the mode query reaches
\* value-level logic without the engine receiving anything.
OneCallEach ==
    [][/\ ctl.c = "call" /\ ctl.tags # <<>> =>
            /\ ctl'.c = "call"
            /\ ctl'.op = ctl.op /\ ctl'.role = ctl.role
            /\ ctl'.tags = Tail(ctl.tags)
            /\ log' = log /\ calls' = calls
       /\ ctl.c = "ret" /\ stack # <<>> /\ Top.f \in {"mapwrap", "mapvariant"} =>
            /\ ctl'.c = "ret"
            /\ ctl'.ok = ctl.ok /\ ctl'.err = ctl.err
            /\ ctl'.op = ctl.op /\ ctl'.role = ctl.role /\ ctl'.vals = ctl.vals
            /\ log' = log /\ calls' = calls
       /\ Len(seen') > Len(seen) => log' = log
      ]_vars

\* skip_field, called on a struct builder inside two wrappers, has reached
\* the engine's builder and is the one call it is about to receive
OneCallEachReached ==
    /\ side = "ser" /\ root = Wrap("Readable", Wrap("Compact", StructSkip))
    /\ ctl.c = "call" /\ ctl.op = "skip_field" /\ ctl.tags = <<>>
    /\ calls.last.op = "skip_field" /\ Len(calls.last.tags) = 2
    /\ Len(log) = calls.n - 1

\* The root is a map or struct under a tag, with a field under the other
ScopedRoot ==
    /\ root.k \in Tags
    /\ root.kids[1] \in {ScopedStruct(Opp(root.k)), ScopedMap(Opp(root.k))}

\* An engine call on the builder or accessor of the sequence inside the
\* tagged field (a sequence access for anything else decodes the parts of
\* a compact Example)
InTaggedField(c) ==
    \/ c.role = "seq"
    \/ c.role = "seq_access" /\ c.vals[1].k \in {"seq", "example"}

\* The flags the mode-sensitive fields observed, in order
ExampleFlags == SelectSeq(Flags(seen), LAMBDA f : f.k = "example")

\* C14: under a root of mode M with one field tagged the other mode, the
\* logic of that field and of what is nested in it observes the other
\* mode, the siblings before and after it observe M, and the builder or
\* accessor of the root is inside M alone for every call made on it.
ScopedTag ==
    ScopedRoot =>
      LET hrM == root.k = "Readable"
      IN  /\ \A i \in 1..Len(seen) :
                /\ seen[i].k \in {"struct", "map"} => seen[i].hr = hrM
                /\ seen[i].k = "example" /\ seen[i].n = 1 => seen[i].hr = hrM
                /\ seen[i].k = "seq" => seen[i].hr = ~hrM
                /\ seen[i].k = "example" /\ seen[i].n = 2 => seen[i].hr = ~hrM
          /\ calls.n > 0 /\ calls.last.role \in {"struct", "map", "map_access"}
                => calls.last.tags = <<root.k>>
          /\ calls.n > 0 /\ InTaggedField(calls.last)
                => calls.last.tags = <<Opp(root.k), root.k>>
          /\ ctl.c = "done" /\ result.ok =>
                /\ ExampleFlags = <<[k |-> "example", n |-> 1, hr |-> hrM],
                                    [k |-> "example", n |-> 2, hr |-> ~hrM],
                                    [k |-> "example", n |-> 1, hr |-> hrM]>>
                /\ side = "de" => Decoded = <<root>>

\* A map under Compact whose second value is under Readable was decoded
\* from an engine that answers false
ScopedTagReached ==
    /\ side = "de" /\ ~engineHR
    /\ root = Wrap("Compact", ScopedMap("Readable"))
    /\ ctl.c = "done" /\ result.ok
    /\ Len(ExampleFlags) = 3 /\ ExampleFlags[2].hr /\ ~ExampleFlags[3].hr

\* C15: Deserialize for a tag decodes the payload type from the
\* deserializer inside the same tag and answers the decoded value inside
\* that tag; deserialize_in_place hands the payload of the place, one tag
\* further in, to the payload type's in-place decode under the same
\* wrapped deserializer and returns its outcome, so the tags of the place
\* never change; a failure yields no value and the wrapped object's error.
TagKept ==
    [][/\ ctl.c = "deserialize" /\ ctl.vals[1].k \in Tags =>
            /\ ctl'.c = "deserialize"
            /\ ctl'.vals = <<ctl.vals[1].kids[1], ctl.vals[2]>>
            /\ ctl'.tags = <<ctl.vals[1].k>> \o ctl.tags
            /\ place' = place
       /\ ctl.c = "deserialize_in_place" /\ ctl.vals[1].k \in Tags =>
            /\ ctl'.c = "deserialize_in_place"
            /\ ctl'.vals = <<ctl.vals[1].kids[1], ctl.vals[2]>>
            /\ ctl'.tags = <<ctl.vals[1].k>> \o ctl.tags
            /\ place'.at = place.at + 1 /\ place'.val = place.val
            /\ stack' = stack
       /\ place.on => RootTags(place'.val) = RootTags(root)
       /\ side = "de" /\ pass = 1 /\ ctl'.c = "done" =>
            IF result'.ok
            THEN /\ place.on => result'.vals = <<>> /\ place'.val = root
                 /\ ~place.on => /\ result'.vals = <<root>>
                                 /\ RootTags(result'.vals[1]) = RootTags(root)
            ELSE /\ result'.vals = <<>>
                 /\ injected.at > 0 /\ result'.err = injected
      ]_vars

\* A place of two different tags received a nested value in its payload
TagKeptReached ==
    /\ side = "de" /\ place.on
    /\ root.k \in Tags /\ root.kids[1].k = Opp(root.k) /\ Body(root) = Nested
    /\ ctl.c = "done" /\ result.ok
    /\ place.at = 2 /\ place.val = root

====
